---- MODULE Spec2Model ----
(***************************************************************************)
(* Model of the vector store of airplane-chat (package vectorstore):       *)
(* Store.UpsertDocumentChunks, Store.QuerySimilar, Store.DeleteConversation *)
(* running as concurrent request goroutines against one Postgres table      *)
(* document_chunks.  The database is modelled as Postgres executes the      *)
(* statements the code issues: pool.Begin with default options opens a      *)
(* READ COMMITTED transaction, every statement sees the rows committed      *)
(* when the statement starts, a DELETE waits for rows locked by another     *)
(* transaction and skips the rows that transaction removed, and the writes  *)
(* of a transaction reach the table at COMMIT only.                         *)
(*                                                                         *)
(* A transaction is visible to the other goroutines at two points: when its *)
(* DELETE takes its rows, and when it commits or rolls back.  The steps of  *)
(* an upsert are therefore: the call up to the end of the insert loop       *)
(* (UpsertBegin, or UpsertDeleteResume when the DELETE had to wait), and    *)
(* the commit (UpsertCommit); a failure ends the call at either point.      *)
(*                                                                         *)
(* Seven more behaviours check the parts that run on their own:            *)
(* QuerySpec (QuerySimilar row by row, with distances and scores),         *)
(* RefreshSpec (Store.RefreshDocument called by one goroutine), EmbedSpec   *)
(* (ollamaEmbedder.Embed of package embeddings), PromptSpec (buildPrompt   *)
(* of package server), SchemaSpec (NewPostgresStore and ensureSchema) and  *)
(* ManagerSpec (Manager.AppendMessage of package storage, called by        *)
(* concurrent goroutines; ManagerFairSpec under fair scheduling) and       *)
(* PostSpec (Server.handlePostMessage serving concurrent requests).        *)
(***************************************************************************)
EXTENDS Integers, Sequences, FiniteSets, TLC

\* ------------------------------------------------------------- bounds ----
MaxChunks == 2
MaxCalls == 2
MaxLimit == 2
MaxDocs == 5
MaxHistory == 2
MaxAppends == 2
MaxPosts == 2

\* Store.dimension
D == 2

Procs == {"p1", "p2"}
Convs == {"c1", "c2"}
\* the documents of each conversation
Keys == {<<"c1", "d1">>, <<"c1", "d2">>, <<"c2", "d1">>}
Texts == <<"a", "b", "c", "d">>
\* one vector of the configured dimension, one too short
GoodVec == [i \in 1..D |-> IF i = 1 THEN 1 ELSE 0]
ShortVec == [i \in 1..(D - 1) |-> 1]
VecPool == {GoodVec, ShortVec}

\* the lengths of the lists a call is given: none, one, the most
Lengths == {0, 1, MaxChunks}
\* the contents a chunk function produces: the first k pieces of a text
ContentsPool == {[i \in 1..k |-> Texts[i]] : k \in Lengths}
\* vector lists with at most one vector of the wrong length, first or last
VectorsPool ==
    {v \in UNION {[1..k -> VecPool] : k \in Lengths} :
        \E bad \in {{}, {1}, {Len(v)}} : \A i \in DOMAIN v : (v[i] = ShortVec) <=> (i \in bad)}
\* the limits a query is given
Limits == {0, 1, MaxLimit}

VARIABLES
    store,      \* committed rows of table document_chunks
    commits,    \* number of upsert transactions committed so far
    pc,         \* position of each goroutine in its current call
    args,       \* arguments of the call in flight
    tx,         \* open transaction: statement snapshot, deleted ids, inserted rows
    overlap,    \* the call in flight has run concurrently with a conflicting call
    last,       \* the call that returned in the last step, if one did: its
                \* arguments in short, and its result
    ans,        \* the last answer of QuerySimilar taken row by row: its
                \* arguments, the plan of its SELECT, the chunks returned
    rf,         \* the RefreshDocument call: its position, its arguments, the
                \* functions it has called, the table when it began, its error
    em,         \* the ollamaEmbedder and its Embed call: the dimension, the texts,
                \* the requests made, the responses, the results, what it returned
    pr,         \* the prompt under assembly by buildPrompt
    sch,        \* the database schema and the NewPostgresStore call that sets it up
    mg,         \* the storage Manager: its mutex mu, its registry locks, the
                \* mutexes made, the metadata files, the goroutines calling it
    post        \* the requests in handlePostMessage, the history files and
                \* the transcripts they write

vars == <<store, commits, pc, args, tx, overlap, last>>
\* the variables the calls on the table leave alone
others == <<ans, rf, em, pr, mg, sch, post>>

NoArgs == [op |-> "none"]
NoTx == [snap |-> {}, del |-> {}, ins |-> {}]
NoCall == [op |-> "none", conv |-> "-", doc |-> "-", err |-> "none", nc |-> 0, nv |-> 0,
           nd |-> 0, seen |-> {}, n |-> 0, stmt |-> "none", ov |-> FALSE]

Ids(rows) == {r.id : r \in rows}

\* ---------------------------------------------------------- SQL pieces ----
\* WHERE conversation_id = $1 AND document_id = $2
MatchDocumentSwapped(r, c, d) == r.conv = d /\ r.doc = c
MatchDocument(r, c, d) == r.conv = c /\ r.doc = d
\* WHERE conversation_id = $1
MatchConversationByDocument(r, c) == r.doc = c
MatchConversation(r, c) == r.conv = c

\* AND document_id = $2 dropped: the rows of the conversation
DocRowsOfConversation(rows, c, d) == {r \in rows : MatchConversation(r, c)}
DocRows(rows, c, d) == {r \in rows : MatchDocument(r, c, d)}
ConvRows(rows, c) == {r \in rows : MatchConversation(r, c)}

\* rows of the table locked by a transaction other than p's
LockedByOther(p, ids) == \E q \in Procs \ {p} : tx[q].del \cap ids # {}

\* ------------------------------------------------------ the code's tests --
\* if len(contents) != len(vectors)
LengthsMatchAtMost(contents, vectors) == Len(contents) <= Len(vectors)
LengthsMatch(contents, vectors) == Len(contents) = Len(vectors)
\* if len(v) != s.dimension
DimensionAtMost(v) == Len(v) <= D
DimensionOK(v) == Len(v) = D

\* two calls conflict when they write the same (conversation, document) pair
Conflicts(a, b) ==
    /\ a.op \in {"upsert", "delete"}
    /\ b.op \in {"upsert", "delete"}
    /\ a.conv = b.conv
    /\ (a.op = "delete" \/ b.op = "delete" \/ a.doc = b.doc)

InFlight(q) == pc[q] # "idle"

\* a call a of p meets a conflicting call in flight
Meets(p, a) == \E o \in Procs \ {p} : InFlight(o) /\ Conflicts(a, args[o])

\* the calls in flight that conflict with a call a of p learn of the overlap
Overlaps(p, a) ==
    [q \in Procs |->
        IF q = p THEN Meets(p, a)
        ELSE overlap[q] \/ (InFlight(q) /\ Conflicts(a, args[q]))]

\* LIMIT $3 dropped: every row
NoLimit(m, n) == m
Min(m, n) == IF m < n THEN m ELSE n

\* what an upsert of nc contents and nv vectors leaves in last when the length
\* test rejects it
UpsertRejected(nc, nv) ==
    [NoCall EXCEPT !.op = "upsert", !.err = "length", !.nc = nc, !.nv = nv]
\* what an upsert leaves in last when statement stmt fails at once
UpsertFailed(stmt) ==
    [NoCall EXCEPT !.op = "upsert", !.err = "io", !.stmt = stmt]
\* what upsert a leaves in last when it returns error e after statement stmt,
\* its DELETE having removed nd rows
UpsertOutcome(a, e, nd, stmt, ov) ==
    [NoCall EXCEPT !.op = "upsert", !.conv = a.conv, !.doc = a.doc, !.err = e,
                   !.nc = Len(a.contents), !.nv = Len(a.vectors),
                   !.nd = nd, !.stmt = stmt, !.ov = ov]
\* what a DeleteConversation(c) that returns error e after deleting nd rows leaves in last
DeleteOutcome(c, e, nd, ov) ==
    [NoCall EXCEPT !.op = "delete", !.conv = c, !.err = e, !.nd = nd, !.stmt = "DELETE", !.ov = ov]
\* what a QuerySimilar(c, embedding of length nv, limit) leaves in last: the ids
\* of the rows its SELECT matched and the number of rows it returned
QueryOutcome(c, nv, e, seen, n, stmt) ==
    [NoCall EXCEPT !.op = "query", !.conv = c, !.err = e, !.nv = nv, !.seen = seen,
                   !.n = n, !.stmt = stmt]

\* p returns from the call in flight with outcome r; its transaction is over
Return(p, r) ==
    /\ pc' = [pc EXCEPT ![p] = "idle"]
    /\ last' = r
    /\ tx' = [tx EXCEPT ![p] = NoTx]
    /\ args' = [args EXCEPT ![p] = NoArgs]
    /\ overlap' = [overlap EXCEPT ![p] = FALSE]

\* ------------------------------------------------- UpsertDocumentChunks --
\* the rows the DELETE of upsert a removes from the rows it sees
SkipDeleteWhenEmpty(a, rows) ==
    IF Len(a.contents) = 0 THEN {} ELSE Ids(DocRows(rows, a.conv, a.doc))
DeleteHit(a, rows) == Ids(DocRows(rows, a.conv, a.doc))

\* the DELETE runs inside the transaction: the table keeps the rows, which are
\* locked and leave the table at the commit
PoolDelete(rows, hit) == [rows |-> {r \in rows : r.id \notin hit}, del |-> {}]
TxDelete(rows, hit) == [rows |-> rows, del |-> hit]

\* the row of the INSERT for contents[i]: chunk_index i - 1; its id is fixed at
\* the commit
NewRow(a, i) ==
    [id |-> i, conv |-> a.conv, doc |-> a.doc, idx |-> i - 1,
     content |-> a.contents[i], vec |-> a.vectors[i], call |-> 0]

\* the insert loop from position i on, with the rows inserted so far: it stops
\* at the first vector of the wrong dimension
RECURSIVE InsertLoopTestsFirst(_, _, _)
InsertLoopTestsFirst(a, i, ins) ==
    IF i > Len(a.contents) THEN [err |-> "ok", ins |-> ins]
    ELSE IF ~DimensionOK(a.vectors[1]) THEN [err |-> "dimension", ins |-> ins]
    ELSE InsertLoopTestsFirst(a, i + 1, ins \cup {NewRow(a, i)})
RECURSIVE InsertLoop(_, _, _)
InsertLoop(a, i, ins) ==
    IF i > Len(a.contents) THEN [err |-> "ok", ins |-> ins]
    ELSE IF ~DimensionOK(a.vectors[i]) THEN [err |-> "dimension", ins |-> ins]
    ELSE InsertLoop(a, i + 1, ins \cup {NewRow(a, i)})

\* the DELETE of upsert a takes effect on the rows hit, then the loop runs: for
\* idx, content := range contents, the dimension test and tx.Exec(INSERT).  The
\* inserted rows are invisible to every other transaction until the commit, so
\* the loop is taken in the step of the DELETE.  A vector of the wrong
\* dimension ends the call: the deferred tx.Rollback discards the writes.
UpsertWrite(p, a, hit, ovs) ==
    LET d == TxDelete(store, hit)
        res == InsertLoop(a, 1, {})
    IN  /\ store' = d.rows
        /\ IF res.err # "ok"
             THEN /\ last' = UpsertOutcome(a, res.err, Cardinality(hit),
                                           IF res.ins = {} THEN "DELETE" ELSE "INSERT", ovs[p])
                  /\ pc' = [pc EXCEPT ![p] = "idle"]
                  /\ tx' = [tx EXCEPT ![p] = NoTx]
                  /\ args' = [args EXCEPT ![p] = NoArgs]
                  /\ overlap' = [overlap EXCEPT ![p] = FALSE]
             ELSE /\ last' = NoCall
                  /\ pc' = [pc EXCEPT ![p] = "commit"]
                  /\ tx' = [tx EXCEPT ![p] = [snap |-> {}, del |-> d.del, ins |-> res.ins]]
                  /\ args' = [args EXCEPT ![p] = a]
                  /\ overlap' = ovs

\* tx.Exec(DELETE ... WHERE conversation_id = $1 AND document_id = $2): the
\* statement sees the committed rows and waits while another transaction holds
\* one of them locked
UpsertDelete(p, a) ==
    LET hit == DeleteHit(a, store)
    IN  IF LockedByOther(p, hit)
          THEN /\ pc' = [pc EXCEPT ![p] = "delwait"]
               /\ args' = [args EXCEPT ![p] = a]
               /\ tx' = [tx EXCEPT ![p].snap = hit]
               /\ overlap' = Overlaps(p, a)
               /\ last' = NoCall
               /\ store' = store
          ELSE UpsertWrite(p, a, hit, Overlaps(p, a))

\* UpsertDocumentChunks(k[1], k[2], contents, vectors): the length test,
\* s.pool.Begin and the statements up to the commit
UpsertCall(p, k, contents, vectors) ==
    IF ~LengthsMatch(contents, vectors)
      THEN /\ last' = UpsertRejected(Len(contents), Len(vectors))
           /\ UNCHANGED <<store, pc, args, tx, overlap>>
      ELSE UpsertDelete(p, [op |-> "upsert", conv |-> k[1], doc |-> k[2],
                            contents |-> contents, vectors |-> vectors])
\* s.pool.Begin or a statement before the commit fails at once
UpsertBroken ==
    \E stmt \in {"BEGIN", "DELETE", "INSERT"} :
        /\ last' = UpsertFailed(stmt)
        /\ UNCHANGED <<store, pc, args, tx, overlap>>
\* upserts that have not committed yet, and those that have, stay within MaxCalls
CallsLeft ==
    commits + Cardinality({q \in Procs : InFlight(q) /\ args[q].op = "upsert"}) < MaxCalls

\* the call among concurrent calls
UpsertBegin(p) ==
    /\ pc[p] = "idle"
    /\ CallsLeft
    /\ \/ \E contents \in ContentsPool, vectors \in VectorsPool, k \in Keys :
            UpsertCall(p, k, contents, vectors)
       \/ UpsertBroken
    /\ UNCHANGED <<commits, others>>

\* the DELETE resumes once the rows of its snapshot are unlocked; the rows the
\* lock holder removed are skipped, the rows it added are not seen
UpsertDeleteResume(p) ==
    /\ pc[p] = "delwait"
    /\ args[p].op = "upsert"
    /\ ~LockedByOther(p, tx[p].snap)
    /\ UpsertWrite(p, args[p], tx[p].snap \cap Ids(store), overlap)
    /\ UNCHANGED <<commits, others>>

\* the rows of a transaction as the n-th committed upsert leaves them: ids no
\* other row ever had (uuid.New), and the number of the upsert that wrote them
Stamp(rows, n) == {[r EXCEPT !.id = <<n, r.id>>, !.call = n] : r \in rows}

\* tx.Commit: the deletes and inserts of the transaction reach the table
UpsertCommit(p) ==
    /\ pc[p] = "commit"
    /\ store' = {r \in store : r.id \notin tx[p].del} \cup Stamp(tx[p].ins, commits + 1)
    /\ commits' = commits + 1
    /\ Return(p, UpsertOutcome(args[p], "ok", Cardinality(tx[p].del), "COMMIT", overlap[p]))
    /\ UNCHANGED others

\* the statement the transaction of p is at
Statement(p) == IF pc[p] = "delwait" THEN "DELETE" ELSE "COMMIT"

\* the statement the transaction is at fails (database error, context
\* cancelled): the call returns the error and the deferred tx.Rollback
\* discards the writes
UpsertFail(p) ==
    /\ pc[p] \in {"delwait", "commit"}
    /\ args[p].op = "upsert"
    /\ Return(p, UpsertOutcome(args[p], "io", Cardinality(tx[p].del), Statement(p), overlap[p]))
    /\ UNCHANGED <<store, commits, others>>

\* ---------------------------------------------------- DeleteConversation --
\* _, err := s.pool.Exec(...): the command tag, with the number of rows the
\* DELETE removed, is dropped; a statement that ran returns no error, whatever
\* the rows it found
DeleteStatusNoRows(hit) == IF hit = {} THEN "norows" ELSE "ok"
DeleteStatus(hit) == "ok"

\* s.pool.Exec(DELETE ... WHERE conversation_id = $1), one autocommitted statement
DeleteConversation(p) ==
    /\ pc[p] = "idle"
    /\ \E c \in Convs :
         LET a == [op |-> "delete", conv |-> c, doc |-> "-"]
             hit == ConvRows(store, c)
         IN  \/ /\ ~LockedByOther(p, Ids(hit))
                /\ store' = store \ hit
                /\ last' = DeleteOutcome(c, DeleteStatus(hit), Cardinality(hit), Meets(p, a))
                /\ overlap' = [Overlaps(p, a) EXCEPT ![p] = FALSE]
                /\ UNCHANGED <<pc, args, tx>>
             \/ /\ LockedByOther(p, Ids(hit))
                /\ pc' = [pc EXCEPT ![p] = "dcwait"]
                /\ args' = [args EXCEPT ![p] = a]
                /\ tx' = [tx EXCEPT ![p].snap = Ids(hit)]
                /\ overlap' = Overlaps(p, a)
                /\ last' = NoCall
                /\ UNCHANGED store
             \/ /\ last' = DeleteOutcome(c, "io", 0, Meets(p, a))
                /\ UNCHANGED <<store, pc, args, tx, overlap>>
    /\ UNCHANGED <<commits, others>>

\* the blocked DELETE resumes once the rows of its snapshot are unlocked
DeleteResume(p) ==
    /\ pc[p] = "dcwait"
    /\ ~LockedByOther(p, tx[p].snap)
    /\ LET hit == {r \in store : r.id \in tx[p].snap}
       IN  /\ store' = store \ hit
           /\ Return(p, DeleteOutcome(args[p].conv, DeleteStatus(hit), Cardinality(hit), overlap[p]))
    /\ UNCHANGED <<commits, others>>

\* the blocked DELETE fails (context cancelled, database error)
DeleteFail(p) ==
    /\ pc[p] = "dcwait"
    /\ Return(p, DeleteOutcome(args[p].conv, "io", 0, overlap[p]))
    /\ UNCHANGED <<store, commits, others>>

\* ----------------------------------------------------------- QuerySimilar --
\* Numbers are fractions <<numerator, denominator>> with a positive denominator.
LessEq(x, y) == x[1] * y[2] <= y[1] * x[2]
OneMinus(x) == <<x[2] - x[1], x[2]>>

Dot(a, b) ==
    LET n == Min(Len(a), Len(b))
        S[i \in 0..n] == IF i = 0 THEN 0 ELSE S[i - 1] + a[i] * b[i]
    IN  S[n]
\* the length of a vector; the vectors of QueryVecs have whole lengths
Norm(v) == CHOOSE n \in 0..Dot(v, v) : n * n = Dot(v, v)

\* embedding <=> $1: the cosine distance, 1 - cos(embedding, $1)
CosineDistance(v, q) == OneMinus(<<Dot(v, q), Norm(v) * Norm(q)>>)
\* 1 - (embedding <=> $1) AS score
Score(v, q) == OneMinus(CosineDistance(v, q))

\* ORDER BY embedding <=> $1: x comes no later than y
Farther(q, x, y) == LessEq(CosineDistance(y.vec, q), CosineDistance(x.vec, q))
Nearer(q, x, y) == LessEq(CosineDistance(x.vec, q), CosineDistance(y.vec, q))

\* chunk.ConversationID = conversationID and
\* rows.Scan(&chunk.ID, &chunk.DocumentID, &chunk.Content, &chunk.Score)
ToChunk(r, c, q) ==
    [id |-> r.id, conv |-> c, doc |-> r.doc, content |-> r.content, score |-> Score(r.vec, q)]

\* ORDER BY embedding <=> $1 LIMIT $3 over the rows the plan scans: the
\* nearest rows in ascending distance, rows at equal distance in any order
Selections(rows, q, limit) ==
    LET n == Min(Cardinality(rows), limit)
    IN  {s \in [1..n -> rows] :
            /\ \A i, j \in 1..n : i < j => (s[i] # s[j] /\ Nearer(q, s[i], s[j]))
            /\ \A r \in rows : (\A i \in 1..n : s[i] # r) =>
                                  \A i \in 1..n : Nearer(q, s[i], r)}

\* The rows the plan of the SELECT scans.  ensureSchema creates the index
\* document_chunks_embedding_idx USING ivfflat: a sequential scan reads every
\* row of the table; a scan of the ivfflat index reads the rows of the lists
\* it probes only, and WHERE conversation_id = $2 filters what it read.
Scanned(rows, plan) == IF plan = "scan" THEN {rows} ELSE SUBSET rows
Plans == {"scan", "index"}

\* the answers QuerySimilar(c, q, limit) can give over table rows under a plan
Answers(rows, c, q, limit, plan) ==
    UNION {{[i \in DOMAIN s |-> ToChunk(s[i], c, q)] : s \in Selections(ConvRows(read, c), q, limit)} :
              read \in Scanned(rows, plan)}
\* the numbers of chunks it can return
AnswerSizes(rows, c, limit) == 0..Min(Cardinality(ConvRows(rows, c)), limit)

\* the vectors of the rows and queries taken row by row
QueryVecs == {<<1, 0>>, <<4, 3>>, <<3, 4>>, <<0, 1>>}
\* the rows a table is made of: four chunks of c1 at four distances of
\* <<1, 0>>, one more at the distance of the first, and one chunk of c2
QueryRows ==
    {[id |-> <<0, 1>>, conv |-> "c1", doc |-> "d1", idx |-> 0, content |-> "a", vec |-> <<1, 0>>, call |-> 0],
     [id |-> <<0, 2>>, conv |-> "c1", doc |-> "d1", idx |-> 1, content |-> "b", vec |-> <<4, 3>>, call |-> 0],
     [id |-> <<0, 3>>, conv |-> "c1", doc |-> "d2", idx |-> 0, content |-> "a", vec |-> <<3, 4>>, call |-> 0],
     [id |-> <<0, 4>>, conv |-> "c1", doc |-> "d2", idx |-> 1, content |-> "b", vec |-> <<0, 1>>, call |-> 0],
     [id |-> <<0, 5>>, conv |-> "c1", doc |-> "d2", idx |-> 2, content |-> "c", vec |-> <<4, 3>>, call |-> 0],
     [id |-> <<0, 6>>, conv |-> "c2", doc |-> "d1", idx |-> 0, content |-> "a", vec |-> <<1, 0>>, call |-> 0]}

NoAnswer == [conv |-> "-", q |-> <<>>, limit |-> 0, plan |-> "none", err |-> "none", chunks |-> <<>>]

\* QuerySimilar(c, q, limit) on the committed table, row by row: the dimension
\* test, s.pool.Query, the scan of its rows
QuerySimilarRows ==
    /\ ans = NoAnswer
    /\ \E c \in Convs, q \in QueryVecs \cup {ShortVec}, limit \in Limits :
         IF ~DimensionOK(q)
           THEN ans' = [NoAnswer EXCEPT !.conv = c, !.q = q, !.limit = limit, !.err = "dimension"]
           ELSE \E plan \in Plans :
                  \/ \E chunks \in Answers(store, c, q, limit, plan) :
                       ans' = [conv |-> c, q |-> q, limit |-> limit, plan |-> plan,
                               err |-> "ok", chunks |-> chunks]
                  \/ ans' = [NoAnswer EXCEPT !.conv = c, !.q = q, !.limit = limit,
                                             !.plan = plan, !.err = "io"]
    /\ UNCHANGED <<vars, post, rf, em, pr, mg, sch>>

\* the caller has taken the answer and may call again
AnswerTaken ==
    /\ ans # NoAnswer
    /\ ans' = NoAnswer
    /\ UNCHANGED <<vars, post, rf, em, pr, mg, sch>>

\* -------------------------------------------------------- RefreshDocument --
\* a function value handed to RefreshDocument: nil, or a function and what it
\* returns when called, a list and an error
Fn(nil, out, err) == [nil |-> nil, out |-> out, err |-> err]
NilFn == Fn(TRUE, <<>>, FALSE)
\* chunkFn func() ([]string, error)
ChunkFns == {NilFn} \cup {Fn(FALSE, c, e) : c \in ContentsPool, e \in BOOLEAN}
\* embedFn func(context.Context, []string) ([][]float32, error)
EmbedFns == {NilFn} \cup {Fn(FALSE, v, e) : v \in VectorsPool, e \in BOOLEAN}

NoRefresh ==
    [stage |-> "idle", conv |-> "-", doc |-> "-", chunkFn |-> NilFn, embedFn |-> NilFn,
     calls |-> <<>>, before |-> {}, err |-> "none"]

\* if chunkFn == nil || embedFn == nil
MissingBoth(chunkFn, embedFn) == chunkFn.nil /\ embedFn.nil
Missing(chunkFn, embedFn) == chunkFn.nil \/ embedFn.nil
\* if len(contents) == 0
NoContentsNever(contents) == FALSE
NoContents(contents) == Len(contents) = 0
\* if err != nil after chunkFn() and after embedFn(ctx, contents)
ErrorDropped(fn) == FALSE
Failed(fn) == fn.err

\* RefreshDocument returns e having called the functions of calls
RefreshReturns(r, calls, e) ==
    /\ rf' = [r EXCEPT !.stage = "returned", !.calls = calls, !.err = e]
    /\ UNCHANGED vars
\* return s.UpsertDocumentChunks(ctx, conversationID, documentID, contents, vectors)
RefreshUpsert(p, r, calls, contents, vectors) ==
    /\ rf' = [r EXCEPT !.stage = "upsert", !.calls = Append(calls, "upsert")]
    /\ \/ UpsertCall(p, <<r.conv, r.doc>>, contents, vectors)
       \/ UpsertBroken
    /\ UNCHANGED commits

\* RefreshDocument(k[1], k[2], chunkFn, embedFn) up to its return, or up to the
\* commit of its upsert
RefreshDocument(p) ==
    /\ rf.stage = "idle"
    /\ pc[p] = "idle"
    /\ CallsLeft
    /\ \E k \in Keys, chunkFn \in ChunkFns, embedFn \in EmbedFns :
         LET r == [stage |-> "idle", conv |-> k[1], doc |-> k[2], chunkFn |-> chunkFn,
                   embedFn |-> embedFn, calls |-> <<>>, before |-> store, err |-> "none"]
         IN  IF Missing(chunkFn, embedFn)
               THEN RefreshReturns(r, <<>>, "missing")
             ELSE IF Failed(chunkFn)
               THEN RefreshReturns(r, <<"chunkFn">>, "chunk")
             ELSE IF NoContents(chunkFn.out)
               THEN RefreshUpsert(p, r, <<"chunkFn">>, <<>>, <<>>)
             ELSE IF Failed(embedFn)
               THEN RefreshReturns(r, <<"chunkFn", "embedFn">>, "embed")
             ELSE RefreshUpsert(p, r, <<"chunkFn", "embedFn">>, chunkFn.out, embedFn.out)
    /\ UNCHANGED <<ans, em, pr, mg, sch, post>>

\* the upsert has returned: RefreshDocument returns its error
RefreshReturn(p) ==
    /\ rf.stage = "upsert"
    /\ pc[p] = "idle"
    /\ rf' = [rf EXCEPT !.stage = "returned", !.err = last.err]
    /\ UNCHANGED <<vars, post, ans, em, pr, mg, sch>>

\* the caller has taken the error and may call again
RefreshTaken ==
    /\ rf.stage = "returned"
    /\ rf' = NoRefresh
    /\ UNCHANGED <<vars, post, ans, em, pr, mg, sch>>

\* ------------------------------------------------------------------ Embed --
\* The numbers of a response are counted in units of the last bit of a
\* float64; the even ones are those a float32 holds.
Values == {2, 3}
\* vec[i] = float32(value)
Float32(x) == x - (x % 2)
ToFloat32(embedding) == [i \in DOMAIN embedding |-> Float32(embedding[i])]

\* the embeddings an endpoint sends: of the dimension of the store, or shorter
EmbeddingPool == {<<2, 2>>, <<2, 3>>, <<3, 2>>, <<3>>}
\* what e.client.Do gives back: no response at all (transport error), a body
\* that is not JSON, a response with an error status and the body
\* {"error": ...}, a response with an embedding
Answer(kind, embedding) == [kind |-> kind, embedding |-> embedding]
Responses ==
    {Answer(k, <<>>) : k \in {"transport", "garbage", "status"}}
        \cup {Answer("ok", e) : e \in EmbeddingPool}

\* json.NewDecoder(resp.Body).Decode(&payload): the status of the response is
\* not read; a JSON object without the key embedding decodes to an empty one
Decodes(resp) == resp.kind # "garbage"
Payload(resp) == IF resp.kind = "ok" THEN resp.embedding ELSE <<>>
\* if e.dimension > 0 && len(vec) != e.dimension
DimensionMismatch(dimension, vec) == dimension > 0 /\ Len(vec) # dimension
\* results = append(results, vec)
PrependResult(results, vec) == <<vec>> \o results
AppendResult(results, vec) == Append(results, vec)

\* NewOllamaEmbedder(host, model, dimension, timeout)
NewOllamaEmbedder(dimension) ==
    [stage |-> "idle", dimension |-> dimension, texts |-> <<>>, requests |-> <<>>,
     responses |-> <<>>, results |-> <<>>, returned |-> <<>>, err |-> "none"]
NoEmbed == NewOllamaEmbedder(D)
\* the dimensions an embedder is built with: none to test, that of the store
Dimensions == {0, D}

\* Embed(ctx, texts): results := make([][]float32, 0, len(texts))
EmbedCall ==
    /\ em.stage = "idle"
    /\ \E texts \in ContentsPool :
         em' = [NewOllamaEmbedder(em.dimension) EXCEPT !.stage = "loop", !.texts = texts]
    /\ UNCHANGED <<vars, post, ans, rf, pr, mg, sch>>

\* return nil, fmt.Errorf(...)
EmbedFails(e, err) == [e EXCEPT !.stage = "returned", !.returned = <<>>, !.err = err]

\* one turn of for _, text := range texts: the request for the next text, its
\* response, the conversion and the dimension test
EmbedRequest ==
    /\ em.stage = "loop"
    /\ Len(em.requests) < Len(em.texts)
    /\ \E resp \in Responses :
         LET text == em.texts[Len(em.requests) + 1]
             e == [em EXCEPT !.requests = Append(@, text), !.responses = Append(@, resp)]
             vec == ToFloat32(Payload(resp))
         IN  em' = IF resp.kind = "transport" THEN EmbedFails(e, "transport")
                   ELSE IF ~Decodes(resp) THEN EmbedFails(e, "decode")
                   ELSE IF DimensionMismatch(em.dimension, vec) THEN EmbedFails(e, "dimension")
                   ELSE [e EXCEPT !.results = AppendResult(@, vec)]
    /\ UNCHANGED <<vars, post, ans, rf, pr, mg, sch>>

\* return results, nil
EmbedReturn ==
    /\ em.stage = "loop"
    /\ Len(em.requests) = Len(em.texts)
    /\ em' = [em EXCEPT !.stage = "returned", !.returned = em.results, !.err = "ok"]
    /\ UNCHANGED <<vars, post, ans, rf, pr, mg, sch>>

\* the caller has taken the vectors and may call again
EmbedTaken ==
    /\ em.stage = "returned"
    /\ em' = NewOllamaEmbedder(em.dimension)
    /\ UNCHANGED <<vars, post, ans, rf, pr, mg, sch>>

\* ------------------------------------------------------------ buildPrompt --
maxDocCharacters == 8000
maxCombinedDocs == 24000

\* A text is a number of characters, each encoded in width bytes (a Go string
\* is its UTF-8 bytes: 1 for ASCII, 2 or 3 for other scripts); a trimmed text
\* may end in some bytes of a character cut in two.
Text(chars, width) == [chars |-> chars, width |-> width, partial |-> 0]
\* len(text): the number of bytes
len(t) == t.chars * t.width + t.partial
\* the texts store.LoadDocumentTexts gives: empty, short, over the limit in
\* characters, over the limit in bytes only
TextPool == {Text(0, 1), Text(100, 1), Text(9000, 1), Text(5000, 2), Text(3000, 3)}
Candidates == UNION {[1..n -> TextPool] : n \in 0..MaxDocs}

\* if len(text) <= limit { return text }; return text[:limit]
trimToLimit(t, limit) ==
    IF len(t) <= limit THEN t
    ELSE [chars |-> limit \div t.width, width |-> t.width, partial |-> limit % t.width]

\* a message of the history (storage.Message) and the histories a call is given
Message(role, content, timestamp) == [role |-> role, content |-> content, timestamp |-> timestamp]
HistoryPool ==
    {h \in UNION {[1..n -> {Message("user", "q", 1), Message("assistant", "r", 2)}] :
                      n \in {0, 1, MaxHistory}} :
        \A k \in DOMAIN h : k > 1 => h[k] # h[k - 1]}

\* systemContent: the fixed sentence, the sentence that introduces the
\* documents when there are some, and the entries "Document %d:\n%s\n\n"
SystemContentBySource(docMessages) ==
    [intro |-> Len(docMessages) > 0,
     entries |-> [k \in DOMAIN docMessages |-> [n |-> docMessages[k].src, text |-> docMessages[k].text]]]
SystemContent(docMessages) ==
    [intro |-> Len(docMessages) > 0,
     entries |-> [k \in DOMAIN docMessages |-> [n |-> k, text |-> docMessages[k].text]]]
\* the number of decimal digits of %d
Digits(n) == IF n < 10 THEN 1 ELSE 2
\* len(fmt.Sprintf("Document %d:\n%s\n\n", n, doc)): "Document " and ":\n"
\* are 11 bytes, "\n\n" 2
EntryLen(e) == 11 + Digits(e.n) + len(e.text) + 2
\* ollama.Message{Role: msg.Role, Content: msg.Content}
ToMessageAsUser(msg) == [role |-> "user", content |-> msg.content]
ToMessage(msg) == [role |-> msg.role, content |-> msg.content]

\* if total+len(trimmed) > maxCombinedDocs
OverBudgetBefore(total, trimmed) == total > maxCombinedDocs
OverBudget(total, trimmed) == total + len(trimmed) > maxCombinedDocs
\* break: the loop is over
SkipOverflow(p) == [p EXCEPT !.i = @ + 1]
Break(p) == [p EXCEPT !.stage = "docs"]

NoPrompt ==
    [stage |-> "idle", loaded |-> "none", texts |-> <<>>, i |-> 0, total |-> 0,
     docMessages |-> <<>>, history |-> <<>>, messages |-> <<>>]

\* buildPrompt(history, store, conversationID) up to the loop: store != nil
\* and store.LoadDocumentTexts(conversationID) gave texts without an error, or
\* the body of the two ifs is passed over
buildPrompt ==
    /\ pr.stage = "idle"
    /\ \/ \E texts \in Candidates :
            pr' = [NoPrompt EXCEPT !.stage = "loop", !.loaded = "ok", !.texts = texts, !.i = 1]
       \/ \E why \in {"nil", "failed"} :
            pr' = [NoPrompt EXCEPT !.stage = "docs", !.loaded = why]
    /\ UNCHANGED <<vars, post, ans, rf, em, mg, sch>>

\* one turn of for _, text := range texts
PromptLoop ==
    /\ pr.stage = "loop"
    /\ pr.i <= Len(pr.texts)
    /\ LET trimmed == trimToLimit(pr.texts[pr.i], maxDocCharacters)
       IN  pr' = IF len(trimmed) = 0
                   THEN [pr EXCEPT !.i = @ + 1]
                 ELSE IF OverBudget(pr.total, trimmed)
                   THEN Break(pr)
                 ELSE [pr EXCEPT !.i = @ + 1, !.total = @ + len(trimmed),
                                 !.docMessages = Append(@, [src |-> pr.i, text |-> trimmed])]
    /\ UNCHANGED <<vars, post, ans, rf, em, mg, sch>>

\* after the loop: the system message, then the messages of the history
PromptBuilt ==
    /\ pr.stage = "docs" \/ (pr.stage = "loop" /\ pr.i > Len(pr.texts))
    /\ \E history \in HistoryPool :
         pr' = [pr EXCEPT !.stage = "built", !.history = history,
                          !.messages = <<[role |-> "system", content |-> SystemContent(pr.docMessages)]>>
                                        \o [k \in DOMAIN history |-> ToMessage(history[k])]]
    /\ UNCHANGED <<vars, post, ans, rf, em, mg, sch>>

\* return messages: the caller has the prompt
PromptTaken ==
    /\ pr.stage = "built"
    /\ pr' = NoPrompt
    /\ UNCHANGED <<vars, post, ans, rf, em, mg, sch>>

\* ----------------------------------------------------------- ensureSchema --
\* the statements of ensureSchema in their order, each named by what it makes
Statements == <<"extension", "table", "conversation_idx", "document_idx", "embedding_idx">>
AllObjects == {Statements[k] : k \in DOMAIN Statements}
\* the databases a store is opened on: the objects made by the first statements
Databases == {{Statements[k] : k \in 1..n} : n \in 0..Len(Statements)}

NoSetup(db) ==
    [stage |-> "idle", db |-> db, txn |-> {}, k |-> 0, pool |-> "none",
     failed |-> "none", ivfflat |-> FALSE, err |-> "none", store |-> FALSE]

\* NewPostgresStore(ctx, dsn, maxConns, dimension) up to ensureSchema:
\* pgxpool.ParseConfig and pgxpool.NewWithConfig, which return their errors
NewPostgresStore ==
    /\ sch.stage = "idle"
    /\ \/ \E e \in {"parse database URL", "connect database"} :
            sch' = [NoSetup(sch.db) EXCEPT !.stage = "returned", !.err = e]
       \/ sch' = [NoSetup(sch.db) EXCEPT !.stage = "exec", !.pool = "open", !.k = 1]
    /\ UNCHANGED <<vars, post, ans, rf, em, pr, mg>>

\* The statements go to the server in one s.pool.Exec without arguments, that
\* is as one simple query: the server runs them in order inside one implicit
\* transaction, and the first that fails ends the query and rolls back what
\* the earlier ones made.  No connection can be had: the first fails.  The
\* message of the error may hold the text ivfflat: it names the objects
\* involved (index method, database, user, schema).
SchemaStatement ==
    /\ sch.stage = "exec"
    /\ sch.k <= Len(Statements)
    /\ \/ sch' = [sch EXCEPT !.txn = @ \cup {Statements[sch.k]}, !.k = @ + 1]
       \/ \E what \in {Statements[sch.k]} \cup (IF sch.k = 1 THEN {"connection"} ELSE {}),
             mentions \in BOOLEAN :
            sch' = [sch EXCEPT !.stage = "failed", !.txn = {}, !.failed = what,
                               !.ivfflat = mentions]
    /\ UNCHANGED <<vars, post, ans, rf, em, pr, mg>>

\* the query is over and its transaction commits
SchemaCommit ==
    /\ sch.stage = "exec"
    /\ sch.k > Len(Statements)
    /\ sch' = [sch EXCEPT !.stage = "done", !.db = @ \cup sch.txn, !.txn = {}]
    /\ UNCHANGED <<vars, post, ans, rf, em, pr, mg>>

\* if err != nil && strings.Contains(err.Error(), "ivfflat") { err = nil }
Swallowed(failed, mentions) == mentions

\* ensureSchema returns err, and NewPostgresStore the store, or after
\* pool.Close() the error
SchemaReturn ==
    /\ sch.stage \in {"failed", "done"}
    /\ sch' = IF sch.stage = "done" \/ Swallowed(sch.failed, sch.ivfflat)
                THEN [sch EXCEPT !.stage = "returned", !.err = "nil", !.store = TRUE]
                ELSE [sch EXCEPT !.stage = "returned", !.err = sch.failed, !.pool = "closed"]
    /\ UNCHANGED <<vars, post, ans, rf, em, pr, mg>>

\* the process ends; the next one opens the store on the database as it is
SchemaRestart ==
    /\ sch.stage = "returned"
    /\ sch' = NoSetup(sch.db)
    /\ UNCHANGED <<vars, post, ans, rf, em, pr, mg>>

\* ------------------------------------------------------- storage.Manager --
\* the goroutines that call the Manager
Callers == {"g1", "g2", "g3"}
\* AppendMessage writes history.json, SaveDocument documents.json
Files == {"history", "documents"}
\* the entries the files hold before the calls
Prior == <<-2, -1>>

NoCaller == [pc |-> "idle", file |-> "-", conv |-> "-", entry |-> 0, lock |-> 0, buf |-> <<>>]
File(list) == [list |-> list, corrupt |-> FALSE]
Corrupt == [list |-> <<>>, corrupt |-> TRUE]

\* NewManager(root): no mutex held, an empty registry; the files are those of
\* the data directory, here entries in the files of the first conversation and
\* no file yet for the others
NewManager(prior) ==
    [mu |-> "none",
     locks |-> [c \in Convs |-> 0],
     held |-> <<>>,
     files |-> [c \in Convs |-> [f \in Files |-> File(IF c = "c1" THEN prior ELSE <<>>)]],
     g |-> [c \in Callers |-> NoCaller],
     calls |-> 0,
     ok |-> {}]

\* g returns: err or nil
ManagerReturn(m, c, err) ==
    [m EXCEPT !.g[c] = NoCaller,
              !.ok = IF err = "nil" THEN @ \cup {[entry |-> m.g[c].entry, conv |-> m.g[c].conv,
                                                   file |-> m.g[c].file]}
                     ELSE @]

\* AppendMessage(conversationID, message) or SaveDocument(conversationID, name,
\* data) up to lockFor: EnsureConversation, and for a document the extension
\* test and the two files of the document
ManagerCall(c) ==
    /\ mg.g[c].pc = "idle"
    /\ mg.calls < MaxAppends
    /\ \E conv \in Convs, f \in Files :
         LET m == [mg EXCEPT !.calls = @ + 1,
                             !.g[c] = [NoCaller EXCEPT !.file = f, !.conv = conv, !.entry = mg.calls + 1]]
         IN  \/ mg' = [m EXCEPT !.g[c].pc = "lockFor"]
             \/ mg' = ManagerReturn(m, c, "ensure")
    /\ UNCHANGED <<vars, post, ans, rf, em, pr, sch>>

\* m.mu.Lock() in lockFor: mu is free
MuAlwaysFree(mu) == TRUE
MuFree(mu) == mu = "none"

\* lockFor up to the test of the registry: m.mu.Lock(), then
\* if lock, ok := m.locks[conversationID]; ok { return lock }, with the
\* deferred m.mu.Unlock()
LockForLookup(c) ==
    /\ mg.g[c].pc = "lockFor"
    /\ MuFree(mg.mu)
    /\ LET found == mg.locks[mg.g[c].conv]
       IN  mg' = IF found # 0
                   THEN [mg EXCEPT !.g[c].lock = found, !.g[c].pc = "Lock"]
                   ELSE [mg EXCEPT !.g[c].pc = "create", !.mu = c]
    /\ UNCHANGED <<vars, post, ans, rf, em, pr, sch>>

\* lock := &sync.Mutex{}; m.locks[conversationID] = lock; return lock, with
\* the deferred m.mu.Unlock()
LockForCreate(c) ==
    /\ mg.g[c].pc = "create"
    /\ LET lock == Len(mg.held) + 1
       IN  mg' = [mg EXCEPT !.held = Append(@, "none"),
                            !.locks[mg.g[c].conv] = lock,
                            !.g[c].lock = lock, !.g[c].pc = "Lock", !.mu = "none"]
    /\ UNCHANGED <<vars, post, ans, rf, em, pr, sch>>

\* lock.Lock()
MutexAlwaysFree(held, lock) == TRUE
MutexFree(held, lock) == held[lock] = "none"
MutexLock(c) ==
    /\ mg.g[c].pc = "Lock"
    /\ MutexFree(mg.held, mg.g[c].lock)
    /\ mg' = [mg EXCEPT !.held[mg.g[c].lock] = c, !.g[c].pc = "load"]
    /\ UNCHANGED <<vars, post, ans, rf, em, pr, sch>>

\* the deferred lock.Unlock() at the return of the call
StillLocked(m, c) == m
Unlocked(m, c) == [m EXCEPT !.held[mg.g[c].lock] = "none"]

\* m.LoadHistory or m.loadDocuments: a missing file is an empty list, a file
\* that cannot be read or decoded is an error
ManagerLoad(c) ==
    /\ mg.g[c].pc = "load"
    /\ LET file == mg.files[mg.g[c].conv][mg.g[c].file]
       IN  \/ /\ ~file.corrupt
               /\ mg' = [mg EXCEPT !.g[c].buf = file.list, !.g[c].pc = "write"]
           \/ mg' = ManagerReturn(Unlocked(mg, c), c, "load")
    /\ UNCHANGED <<vars, post, ans, rf, em, pr, sch>>

\* history = append(history, message), documents = append(documents, document)
Replaced(list, entry) == <<entry>>
Appended(list, entry) == Append(list, entry)

\* json.MarshalIndent and os.WriteFile, then the return: a write that fails
\* leaves the file as it was, or truncated
ManagerWrite(c) ==
    /\ mg.g[c].pc = "write"
    /\ LET conv == mg.g[c].conv
           f == mg.g[c].file
       IN  \/ mg' = ManagerReturn(Unlocked([mg EXCEPT !.files[conv][f] =
                                                File(Appended(mg.g[c].buf, mg.g[c].entry))], c),
                                   c, "nil")
           \/ \E left \in {mg.files[conv][f], Corrupt} :
                 mg' = ManagerReturn(Unlocked([mg EXCEPT !.files[conv][f] = left], c), c, "write")
    /\ UNCHANGED <<vars, post, ans, rf, em, pr, sch>>

\* ------------------------------------------------------ handlePostMessage --
\* the HTTP requests served concurrently
Requests == {"r1", "r2"}
\* a message of history.json: its role and the turn (the post) it belongs to
Turn(role, turn) == [role |-> role, turn |-> turn]
\* the history of the first conversation before the posts
EarlierTurns == <<Turn("user", 0), Turn("assistant", 0)>>

NoRequest ==
    [pc |-> "idle", conv |-> "-", turn |-> 0, status |-> 0, generated |-> "none",
     alone |-> TRUE, before |-> <<>>, history |-> <<>>]

\* the server before the posts: the history files of the data directory (none
\* yet for the second conversation), no transcript, no request
NewServer ==
    [files |-> [c \in Convs |-> File(IF c = "c1" THEN EarlierTurns ELSE <<>>)],
     transcripts |-> {},
     r |-> [q \in Requests |-> NoRequest],
     turns |-> 0]

\* writeError(w, status, err); return
PostError(p, q, status) == [p EXCEPT !.r[q].pc = "returned", !.r[q].status = status]

\* s.storage.AppendMessage(id, message) as one step (the section of a
\* conversation is entered by one goroutine at a time): the outcomes are the
\* file with the message appended and nil, or an error with the file as it
\* was, or damaged by the failed write; a file that cannot be decoded is an
\* error
AppendMessage(file, message) ==
    IF file.corrupt THEN {[file |-> file, err |-> "load"]}
    ELSE {[file |-> File(Append(file.list, message)), err |-> "nil"],
          [file |-> file, err |-> "write"],
          [file |-> Corrupt, err |-> "write"]}

\* handlePostMessage up to the first AppendMessage: the id and the payload are
\* tested (400 for a missing id, a body that is not JSON, a blank content)
handlePostMessage(q) ==
    /\ post.r[q].pc = "idle"
    /\ post.turns < MaxPosts
    /\ \E id \in Convs \cup {""}, payload \in {"invalid", "blank", "text"} :
         IF id = "" \/ payload # "text"
           THEN post' = PostError(post, q, 400)
           ELSE LET p == [post EXCEPT !.turns = @ + 1,
                                      !.r[q] = [NoRequest EXCEPT !.pc = "appendUser", !.conv = id,
                                                                 !.turn = post.turns + 1,
                                                                 !.before = post.files[id].list]]
                    met == {o \in Requests \ {q} : post.r[o].pc # "idle" /\ post.r[o].conv = id}
                IN  post' = [p EXCEPT !.r = [o \in Requests |->
                                    IF o \in met \/ (o = q /\ met # {})
                                      THEN [p.r[o] EXCEPT !.alone = FALSE] ELSE p.r[o]]]
    /\ UNCHANGED <<vars, ans, rf, em, pr, mg, sch>>

\* if err := s.storage.AppendMessage(id, userMessage); err != nil { 500 }
PostAppendUser(q) ==
    /\ post.r[q].pc = "appendUser"
    /\ \E o \in AppendMessage(post.files[post.r[q].conv], Turn("user", post.r[q].turn)) :
         LET p == [post EXCEPT !.files[post.r[q].conv] = o.file]
         IN  post' = IF o.err = "nil" THEN [p EXCEPT !.r[q].pc = "load"]
                     ELSE PostError(p, q, 500)
    /\ UNCHANGED <<vars, ans, rf, em, pr, mg, sch>>

\* history, err := s.storage.LoadHistory(id): the file as it is, or an error
\* (a file that cannot be read or decoded)
PostLoadHistory(q) ==
    /\ post.r[q].pc = "load"
    /\ LET file == post.files[post.r[q].conv]
       IN  \/ /\ ~file.corrupt
               /\ post' = [post EXCEPT !.r[q].history = file.list, !.r[q].pc = "generate"]
           \/ post' = PostError(post, q, 500)
    /\ UNCHANGED <<vars, ans, rf, em, pr, mg, sch>>

\* if err != nil { 502; return } after s.llm.Generate
ReplyStoredAnyway(err) == "appendAssistant"
AfterGenerate(err) == IF err = "nil" THEN "appendAssistant" ELSE "returned"

\* buildPrompt(history, s.storage, id) and s.llm.Generate(ctx, ollamaMessages)
PostGenerate(q) ==
    /\ post.r[q].pc = "generate"
    /\ \E err \in {"nil", "failed"} :
         post' = [post EXCEPT !.r[q].generated = IF err = "nil" THEN "ok" ELSE "failed",
                              !.r[q].pc = AfterGenerate(err),
                              !.r[q].status = IF AfterGenerate(err) = "returned" THEN 502 ELSE 0]
    /\ UNCHANGED <<vars, ans, rf, em, pr, mg, sch>>

\* if err := s.storage.AppendMessage(id, assistantMessage); err != nil { 500 }
PostAppendAssistant(q) ==
    /\ post.r[q].pc = "appendAssistant"
    /\ \E o \in AppendMessage(post.files[post.r[q].conv], Turn("assistant", post.r[q].turn)) :
         LET p == [post EXCEPT !.files[post.r[q].conv] = o.file]
         IN  post' = IF o.err = "nil" THEN [p EXCEPT !.r[q].pc = "transcript"]
                     ELSE PostError(p, q, 500)
    /\ UNCHANGED <<vars, ans, rf, em, pr, mg, sch>>

\* s.storage.SaveTranscript(id, response, assistantMessage.Timestamp), then
\* writeJSON(w, http.StatusOK, ...)
PostSaveTranscript(q) ==
    /\ post.r[q].pc = "transcript"
    /\ \/ post' = [post EXCEPT !.transcripts = @ \cup {post.r[q].turn},
                               !.r[q].pc = "returned", !.r[q].status = 200]
       \/ post' = PostError(post, q, 500)
    /\ UNCHANGED <<vars, ans, rf, em, pr, mg, sch>>

\* the response is with the client
PostAnswered(q) ==
    /\ post.r[q].pc = "returned"
    /\ post' = [post EXCEPT !.r[q] = NoRequest]
    /\ UNCHANGED <<vars, ans, rf, em, pr, mg, sch>>

\* the call among concurrent calls: the dimension test, then s.pool.Query:
\* SELECT ... WHERE conversation_id = $2 ORDER BY embedding <=> $1 LIMIT $3
\* reads the committed rows of the conversation and returns at most limit of
\* them
QuerySimilar(p) ==
    /\ pc[p] = "idle"
    /\ \E e \in VecPool :
         IF ~DimensionOK(e)
           THEN last' = QueryOutcome("-", Len(e), "dimension", {}, 0, "none")
           ELSE \/ \E c \in Convs, limit \in Limits :
                     \E n \in AnswerSizes(store, c, limit) :
                        last' = QueryOutcome(c, Len(e), "ok", Ids(ConvRows(store, c)), n, "SELECT")
                \/ last' = QueryOutcome("-", Len(e), "io", {}, 0, "SELECT")
    /\ UNCHANGED <<store, commits, pc, args, tx, overlap, others>>

\* ---------------------------------------------------------- specification --
\* CREATE TABLE IF NOT EXISTS keeps the rows of an earlier run: the table starts
\* empty or with a document an earlier process has indexed
EarlierRows ==
    {[id |-> <<0, 1>>, conv |-> "c1", doc |-> "d1", idx |-> 0, content |-> Texts[1],
      vec |-> GoodVec, call |-> 0]}

Init ==
    /\ store \in {{}, EarlierRows}
    /\ commits = 0
    /\ pc = [p \in Procs |-> "idle"]
    /\ args = [p \in Procs |-> NoArgs]
    /\ tx = [p \in Procs |-> NoTx]
    /\ overlap = [p \in Procs |-> FALSE]
    /\ last = NoCall
    /\ ans = NoAnswer
    /\ rf = NoRefresh
    /\ em = NoEmbed
    /\ pr = NoPrompt
    /\ mg = NewManager(Prior)
    /\ sch = NoSetup(AllObjects)
    /\ post = NewServer

Next ==
    \E p \in Procs :
        \/ UpsertBegin(p)
        \/ UpsertDeleteResume(p)
        \/ UpsertCommit(p)
        \/ UpsertFail(p)
        \/ DeleteConversation(p)
        \/ DeleteResume(p)
        \/ DeleteFail(p)
        \/ QuerySimilar(p)

Spec == Init /\ [][Next]_vars

\* QuerySimilar on a table that does not change
QueryInit ==
    /\ store \in SUBSET QueryRows
    /\ commits = 0
    /\ pc = [p \in Procs |-> "idle"]
    /\ args = [p \in Procs |-> NoArgs]
    /\ tx = [p \in Procs |-> NoTx]
    /\ overlap = [p \in Procs |-> FALSE]
    /\ last = NoCall
    /\ ans = NoAnswer
    /\ rf = NoRefresh
    /\ em = NoEmbed
    /\ pr = NoPrompt
    /\ mg = NewManager(Prior)
    /\ sch = NoSetup(AllObjects)
    /\ post = NewServer

QueryNext == QuerySimilarRows \/ AnswerTaken

QuerySpec == QueryInit /\ [][QueryNext]_<<vars, others>>

\* RefreshDocument called by one goroutine, one call after the other
RefreshNext ==
    \/ RefreshDocument("p1")
    \/ UpsertCommit("p1")
    \/ UpsertFail("p1")
    \/ RefreshReturn("p1")
    \/ RefreshTaken

RefreshSpec == Init /\ [][RefreshNext]_<<vars, others>>

\* Embed called on an embedder of either kind, one call after the other
EmbedInit ==
    /\ store = {}
    /\ commits = 0
    /\ pc = [p \in Procs |-> "idle"]
    /\ args = [p \in Procs |-> NoArgs]
    /\ tx = [p \in Procs |-> NoTx]
    /\ overlap = [p \in Procs |-> FALSE]
    /\ last = NoCall
    /\ ans = NoAnswer
    /\ rf = NoRefresh
    /\ em \in {NewOllamaEmbedder(d) : d \in Dimensions}
    /\ pr = NoPrompt
    /\ mg = NewManager(Prior)
    /\ sch = NoSetup(AllObjects)
    /\ post = NewServer

EmbedNext == EmbedCall \/ EmbedRequest \/ EmbedReturn \/ EmbedTaken

EmbedSpec == EmbedInit /\ [][EmbedNext]_<<vars, others>>

\* buildPrompt called on the texts of a conversation
PromptNext == buildPrompt \/ PromptLoop \/ PromptBuilt \/ PromptTaken

PromptSpec == Init /\ [][PromptNext]_<<vars, others>>

\* AppendMessage and SaveDocument called by concurrent goroutines
ManagerInit ==
    /\ store = {}
    /\ commits = 0
    /\ pc = [p \in Procs |-> "idle"]
    /\ args = [p \in Procs |-> NoArgs]
    /\ tx = [p \in Procs |-> NoTx]
    /\ overlap = [p \in Procs |-> FALSE]
    /\ last = NoCall
    /\ ans = NoAnswer
    /\ rf = NoRefresh
    /\ em = NoEmbed
    /\ pr = NoPrompt
    /\ mg = NewManager(Prior)
    /\ sch = NoSetup(AllObjects)
    /\ post = NewServer

ManagerNext ==
    \E c \in Callers :
        \/ ManagerCall(c)
        \/ LockForLookup(c)
        \/ LockForCreate(c)
        \/ MutexLock(c)
        \/ ManagerLoad(c)
        \/ ManagerWrite(c)

ManagerSpec == ManagerInit /\ [][ManagerNext]_<<vars, others>>

\* the same calls under fair scheduling: a goroutine whose next step stays
\* possible takes it.  The calls are finitely many, so a mutex that is free
\* stays free until a waiter takes it, and no more is needed of sync.Mutex
\* than that it lets some waiter in.
ManagerStep(c) ==
    LockForLookup(c) \/ LockForCreate(c) \/ MutexLock(c) \/ ManagerLoad(c) \/ ManagerWrite(c)

ManagerFairSpec ==
    ManagerSpec /\ \A c \in Callers : WF_<<vars, others>>(ManagerStep(c))

\* handlePostMessage serving concurrent requests
PostNext ==
    \E q \in Requests :
        \/ handlePostMessage(q)
        \/ PostAppendUser(q)
        \/ PostLoadHistory(q)
        \/ PostGenerate(q)
        \/ PostAppendAssistant(q)
        \/ PostSaveTranscript(q)
        \/ PostAnswered(q)

PostSpec == ManagerInit /\ [][PostNext]_<<vars, others>>

\* NewPostgresStore run on a database in any state of preparation
SchemaInit ==
    /\ store = {}
    /\ commits = 0
    /\ pc = [p \in Procs |-> "idle"]
    /\ args = [p \in Procs |-> NoArgs]
    /\ tx = [p \in Procs |-> NoTx]
    /\ overlap = [p \in Procs |-> FALSE]
    /\ last = NoCall
    /\ ans = NoAnswer
    /\ rf = NoRefresh
    /\ em = NoEmbed
    /\ pr = NoPrompt
    /\ mg = NewManager(Prior)
    /\ sch \in {NoSetup(db) : db \in Databases}
    /\ post = NewServer

SchemaNext == NewPostgresStore \/ SchemaStatement \/ SchemaCommit \/ SchemaReturn \/ SchemaRestart

SchemaSpec == SchemaInit /\ [][SchemaNext]_<<vars, others>>

TypeOK ==
    /\ \A r \in store : <<r.conv, r.doc>> \in Keys
    /\ commits \in 0..MaxCalls
    /\ \A p \in Procs : pc[p] \in {"idle", "delwait", "commit", "dcwait"}

\* ------------------------------------------------------------ properties --
\* the step is the successful commit of p's upsert
UpsertCommits(p) == pc[p] = "commit" /\ pc'[p] = "idle" /\ last'.err = "ok"
\* the step is a step of an upsert of p that is or stays in flight
UpsertMoves(p) == (args[p].op = "upsert" \/ args'[p].op = "upsert") /\ pc'[p] # pc[p]
\* the committed chunks of document d of conversation c
ChunksOf(rows, c, d) == {r \in rows : r.conv = c /\ r.doc = d}
\* the committed chunks of conversation c
ChunksIn(rows, c) == {r \in rows : r.conv = c}
\* upsert a has a vector of a length other than D
HasWrongVector(a) == a.op = "upsert" /\ \E i \in DOMAIN a.vectors : Len(a.vectors[i]) # D
\* a query that returns without error has matched the committed rows of its
\* conversation, and returns no more rows than it matched
QueryReadsCommitted ==
    (last'.op = "query" /\ last'.err = "ok") =>
        /\ last'.seen = {r.id : r \in ChunksIn(store, last'.conv)}
        /\ last'.n <= Cardinality(last'.seen)

\* C1: when an upsert of (c, d) that met no conflicting call commits, the
\* chunks of (c, d) are exactly its contents, one chunk per content in order,
\* all written by this upsert and none by an earlier one; and a query matches
\* committed chunks only, so it sees no chunk of a replaced version.
ReplaceOnCommit ==
    [][/\ \A p \in Procs :
            (UpsertCommits(p) /\ ~overlap[p]) =>
                LET a == args[p]
                    rows == ChunksOf(store', a.conv, a.doc)
                IN  /\ Cardinality(rows) = Len(a.contents)
                    /\ \A i \in 1..Len(a.contents) :
                          \E r \in rows : /\ r.idx = i - 1
                                          /\ r.content = a.contents[i]
                                          /\ r.vec = a.vectors[i]
                    /\ rows \cap store = {}
                    /\ \A r \in rows : r.call = commits'
       /\ QueryReadsCommitted]_vars

\* an upsert that met no other call has replaced a prior version by new chunks
ReplacedPriorVersion ==
    /\ last.op = "upsert" /\ last.err = "ok" /\ ~last.ov
    /\ last.nd > 0 /\ last.nc > 0
    /\ Cardinality(ChunksOf(store, last.conv, last.doc)) = last.nc
    /\ \A r \in ChunksOf(store, last.conv, last.doc) : r.call = commits

\* C2: every step of an upsert other than its successful commit (a failing
\* Begin, DELETE, INSERT or Commit, a cancellation, the rollback) leaves the
\* committed table as it is, so a failed upsert has changed nothing.
FailedUpsertChangesNothing ==
    [][/\ \A p \in Procs : (UpsertMoves(p) /\ ~UpsertCommits(p)) => store' = store
       /\ (last'.op = "upsert" /\ last'.err # "ok") => store' = store]_vars

\* a commit failed after the transaction had deleted the prior chunks and
\* inserted new ones, and the prior chunks are still there
RolledBackAfterWrites ==
    /\ last.op = "upsert" /\ last.err = "io" /\ last.stmt = "COMMIT"
    /\ last.nd > 0 /\ last.nc > 0
    /\ Cardinality(ChunksOf(store, last.conv, last.doc)) >= last.nd
    /\ \A r \in ChunksOf(store, last.conv, last.doc) : r.call <= commits

\* C3: the chunks of one (conversation, document) pair always come from one
\* single upsert.
NeverMixed ==
    \A k \in Keys : \A r1, r2 \in ChunksOf(store, k[1], k[2]) : r1.call = r2.call

\* C4: when an upsert that ran concurrently with a conflicting call commits,
\* the chunks of its pair are its own: nothing of an earlier commit remains.
LastWriterWins ==
    [][\A p \in Procs :
          (UpsertCommits(p) /\ overlap[p]) =>
              \A r \in ChunksOf(store', args[p].conv, args[p].doc) : r.call = commits']_vars

\* C5: an upsert given a vector of a length other than D, at any position,
\* never gets to its commit: it returns an error, and none of its steps
\* changes the committed table; a query given such a vector returns the
\* dimension error and changes nothing.
DimensionMismatchRejected ==
    [][/\ \A p \in Procs :
            /\ pc'[p] = "commit" => ~HasWrongVector(args'[p])
            /\ (HasWrongVector(args[p]) /\ pc'[p] = "idle") =>
                   (last'.err \in {"dimension", "io"} /\ store' = store)
       /\ (last'.op = "upsert" /\ last'.err = "dimension") => store' = store
       /\ (last'.op = "query" /\ last'.nv # D) => (last'.err = "dimension" /\ store' = store)]_vars

\* an upsert was rejected for its last vector after its DELETE had removed
\* prior chunks and its first vector had been inserted; the prior chunks remain
RejectedAfterValidVector ==
    /\ last.op = "upsert" /\ last.err = "dimension" /\ last.stmt = "INSERT"
    /\ last.nd > 0
    /\ Cardinality(ChunksOf(store, last.conv, last.doc)) >= last.nd

\* C6: a call that returns the dimension error has issued no database statement.
DimensionRejectedBeforeIO == last.err = "dimension" => last.stmt = "none"

\* C7: an upsert with len(contents) # len(vectors) returns the length error
\* at once: no statement is issued, no transaction is opened, the table is
\* unchanged; no upsert with such arguments is ever in flight.
LengthMismatchRejected ==
    [][/\ (last'.op = "upsert" /\ last'.nc # last'.nv) =>
            /\ last'.err = "length"
            /\ last'.stmt = "none"
            /\ store' = store /\ tx' = tx /\ pc' = pc
       /\ \A p \in Procs :
            args'[p].op = "upsert" => Len(args'[p].contents) = Len(args'[p].vectors)]_vars

\* an upsert was rejected for its lengths while the table held chunks
RejectedForLengths ==
    /\ last.op = "upsert" /\ last.err = "length" /\ last.nc # last.nv
    /\ store # {}

\* C8: every committed chunk has an embedding of length D.
AllEmbeddingsHaveDimension == \A r \in store : Len(r.vec) = D

\* a call mixing a valid and a wrong-length vector has failed and the table
\* holds chunks
StoredAfterMixedCall ==
    /\ last.op = "upsert" /\ last.err = "dimension" /\ last.nc > 1
    /\ store # {}

\* C9: an upsert with empty contents and vectors is never rejected by a test;
\* when it commits, having met no conflicting call, (c, d) has no chunk; and
\* a query matches rows of the table only, so none of a document without chunks.
EmptyUpsertClears ==
    [][/\ \A p \in Procs :
            (UpsertCommits(p) /\ ~overlap[p] /\ Len(args[p].contents) = 0) =>
                ChunksOf(store', args[p].conv, args[p].doc) = {}
       /\ (last'.op = "upsert" /\ last'.err \in {"length", "dimension"}) =>
            last'.nc + last'.nv > 0
       /\ (last'.op = "query" /\ last'.err = "ok") =>
            \A id \in last'.seen : \E r \in store : r.id = id /\ r.conv = last'.conv]_vars

\* an empty upsert has removed the prior chunks of its document
ClearedByEmptyUpsert ==
    /\ last.op = "upsert" /\ last.err = "ok" /\ ~last.ov
    /\ last.nc = 0 /\ last.nd > 0
    /\ ChunksOf(store, last.conv, last.doc) = {}

\* C10: a DeleteConversation(c) that returns without error, having met no
\* upsert of c in flight, leaves no chunk of c; chunks of c come back only by
\* the commit of an upsert of c; and a query on a conversation without chunks
\* returns the empty result, whatever its vector and limit.
DeletedConversationIsEmpty ==
    [][/\ (last'.op = "delete" /\ last'.err = "ok" /\ ~last'.ov) =>
            ChunksIn(store', last'.conv) = {}
       /\ \A c \in Convs :
            (ChunksIn(store, c) = {} /\ ChunksIn(store', c) # {}) =>
                \E p \in Procs : UpsertCommits(p) /\ args[p].conv = c
       /\ (last'.op = "query" /\ last'.err = "ok" /\ ChunksIn(store, last'.conv) = {}) =>
            (last'.n = 0 /\ last'.seen = {})]_vars

\* a conversation with several chunks has been deleted
ConversationDeleted ==
    /\ last.op = "delete" /\ last.err = "ok" /\ ~last.ov
    /\ last.nd >= 2
    /\ ChunksIn(store, last.conv) = {}

\* C11: when a DeleteConversation(c) has returned without error, the table
\* holds no chunk of c, whatever upserts of c were in flight meanwhile.
NoChunkOutlivesConversation ==
    (last.op = "delete" /\ last.err = "ok") => ChunksIn(store, last.conv) = {}

\* C12: a DeleteConversation(c) on a conversation without chunks changes
\* nothing and returns no error of its own (a database failure apart); a
\* DeleteConversation(c) that directly follows a completed one, which met no
\* upsert of c, changes nothing either.
DeleteIsIdempotent ==
    [][/\ (last'.op = "delete" /\ ChunksIn(store, last'.conv) = {}) =>
            /\ store' = store
            /\ last'.err \in {"ok", "io"}
            /\ last'.nd = 0
       /\ (/\ last.op = "delete" /\ last.err = "ok" /\ ~last.ov
           /\ last'.op = "delete" /\ last'.conv = last.conv) =>
            store' = store]_vars

\* a DeleteConversation found no chunk of its conversation and returned
\* without error, the chunks of another conversation being still there
DeletedNothing ==
    /\ last.op = "delete" /\ last.err = "ok" /\ last.nd = 0
    /\ ChunksIn(store, last.conv) = {}
    /\ store # {}

\* ------------------------------------------------- QuerySimilar, row by row --
\* the row of the table a returned chunk was read from
RowOf(ch) == CHOOSE r \in store : r.id = ch.id
Returned == {ans.chunks[i] : i \in DOMAIN ans.chunks}
Answered == ans.err = "ok"
\* row x is at most as far from q as row y
AtMostAsFar(q, x, y) ==
    LET dx == CosineDistance(x.vec, q)
        dy == CosineDistance(y.vec, q)
    IN  dx[1] * dy[2] <= dy[1] * dx[2]
Sum(x, y) == <<x[1] * y[2] + y[1] * x[2], x[2] * y[2]>>

\* C13: QuerySimilar(c, q, limit) returns at most limit chunks, every one of
\* them read from a row of conversation c, never from a row of another
\* conversation however near; for a conversation without chunks the answer is
\* empty and the only possible error is that of the database.
QueryStaysInConversation ==
    /\ Answered =>
         /\ Len(ans.chunks) <= ans.limit
         /\ \A ch \in Returned :
               /\ \E r \in store : r.id = ch.id
               /\ RowOf(ch).conv = ans.conv
               /\ ch.conv = ans.conv
               /\ ch.doc = RowOf(ch).doc /\ ch.content = RowOf(ch).content
         /\ ConvRows(store, ans.conv) = {} => ans.chunks = <<>>
    /\ (ans # NoAnswer /\ DimensionOK(ans.q)) => ans.err \in {"ok", "io"}

\* a full answer for c1 while the table holds more chunks of c1 than the limit
\* and a chunk of another conversation nearer to q than any chunk returned
NearerChunkElsewhere ==
    /\ Answered /\ ans.limit > 0 /\ Len(ans.chunks) = ans.limit
    /\ Cardinality(ConvRows(store, ans.conv)) > ans.limit
    /\ \E r \in store :
         /\ r.conv # ans.conv
         /\ \A ch \in Returned : ~AtMostAsFar(ans.q, RowOf(ch), r)

\* an answer without error for a conversation without chunks in a table with
\* chunks of another conversation
EmptyConversationAnswered ==
    /\ Answered /\ ans.limit > 0 /\ ans.chunks = <<>>
    /\ ConvRows(store, ans.conv) = {} /\ store # {}

\* the chunks come in non-decreasing distance, each with score = 1 - distance
OrderedWithScores ==
    /\ \A i, j \in DOMAIN ans.chunks :
         i < j => (ans.chunks[i].id # ans.chunks[j].id
                   /\ AtMostAsFar(ans.q, RowOf(ans.chunks[i]), RowOf(ans.chunks[j])))
    /\ \A ch \in Returned :
         LET sum == Sum(ch.score, CosineDistance(RowOf(ch).vec, ans.q))
         IN  sum[1] = sum[2]
\* the chunks are the min(limit, n) nearest of the conversation
NearestReturned ==
    /\ Len(ans.chunks) = Min(ans.limit, Cardinality(ConvRows(store, ans.conv)))
    /\ \A r \in ConvRows(store, ans.conv) :
         (\A ch \in Returned : ch.id # r.id) =>
            \A ch \in Returned : AtMostAsFar(ans.q, RowOf(ch), r)

\* C14 as stated: QuerySimilar(c, q, limit) returns the min(limit, n) chunks
\* of c nearest to q, in non-decreasing distance, each with score = 1 - distance.
QueryReturnsNearest == Answered => (OrderedWithScores /\ NearestReturned)

\* C14: QuerySimilar(c, q, limit) returns at most min(limit, n) chunks of c in
\* non-decreasing distance to q, each with score = 1 - distance; when the
\* SELECT runs as a sequential scan they are exactly the min(limit, n) chunks
\* of c nearest to q.
QueryOrderedNearestOnScan ==
    Answered =>
        /\ OrderedWithScores
        /\ Len(ans.chunks) <= Min(ans.limit, Cardinality(ConvRows(store, ans.conv)))
        /\ ans.plan = "scan" => NearestReturned

\* three chunks of c1 at three distances of q, limit 2, a sequential scan: the
\* nearest then the second nearest are returned, the farthest is left out
TwoNearestOfThree ==
    /\ Answered /\ ans.plan = "scan" /\ ans.limit = Min(2, MaxLimit)
    /\ Cardinality(ConvRows(store, ans.conv)) = 3
    /\ Len(ans.chunks) = ans.limit
    /\ \E r \in ConvRows(store, ans.conv) :
         /\ \A ch \in Returned : ch.id # r.id /\ ~AtMostAsFar(ans.q, r, RowOf(ch))
    /\ \A i, j \in DOMAIN ans.chunks :
         i < j => ~AtMostAsFar(ans.q, RowOf(ans.chunks[j]), RowOf(ans.chunks[i]))

\* -------------------------------------------------------- RefreshDocument --
Refreshed == rf.stage = "returned"
BothGiven == ~rf.chunkFn.nil /\ ~rf.embedFn.nil
\* chunkFn returned zero contents and no error
ZeroContents == Refreshed /\ BothGiven /\ ~rf.chunkFn.err /\ rf.chunkFn.out = <<>>
WrongVectorIn(vectors) == \E i \in DOMAIN vectors : Len(vectors[i]) # D

\* C15: a RefreshDocument whose chunkFn returns zero contents does not call
\* embedFn, calls the upsert with two empty lists, returns no error of its own
\* (only one of the database) and, when the upsert succeeds, leaves the document
\* without chunks and the other documents as they were.
EmptyRefreshClears ==
    ZeroContents =>
        /\ rf.calls = <<"chunkFn", "upsert">>
        /\ last.op = "upsert" /\ last.nc = 0 /\ last.nv = 0
        /\ rf.err \in {"ok", "io"}
        /\ rf.err = "ok" =>
              /\ DocRows(store, rf.conv, rf.doc) = {}
              /\ store = rf.before \ DocRows(rf.before, rf.conv, rf.doc)

\* a refresh with zero contents, and an embedFn that would fail, has returned
\* nil on a document whose chunks an earlier refresh had stored
ClearedByEmptyRefresh ==
    /\ ZeroContents /\ rf.err = "ok" /\ rf.embedFn.err
    /\ \E r \in DocRows(rf.before, rf.conv, rf.doc) : r.call > 0
    /\ store # {}

\* C16: when a stage of RefreshDocument fails (chunkFn, embedFn, the number or
\* the dimension of the vectors, the upsert) RefreshDocument returns an error,
\* the table is what it was before the call, and no later stage has run.
RefreshFailureChangesNothing ==
    (Refreshed /\ BothGiven) =>
        /\ rf.err # "ok" => store = rf.before
        /\ rf.chunkFn.err => (rf.err = "chunk" /\ rf.calls = <<"chunkFn">>)
        /\ (~rf.chunkFn.err /\ rf.chunkFn.out # <<>> /\ rf.embedFn.err) =>
              (rf.err = "embed" /\ rf.calls = <<"chunkFn", "embedFn">>)
        /\ (~rf.chunkFn.err /\ rf.chunkFn.out # <<>> /\ ~rf.embedFn.err) =>
              /\ rf.calls = <<"chunkFn", "embedFn", "upsert">>
              /\ Len(rf.embedFn.out) # Len(rf.chunkFn.out) => rf.err \in {"length", "io"}
              /\ WrongVectorIn(rf.embedFn.out) => rf.err \in {"length", "dimension", "io"}
        /\ rf.err \in {"length", "dimension", "io"} => (last.op = "upsert" /\ last.err = rf.err)

\* a refresh has failed on a vector of the wrong dimension after its DELETE
\* had removed the chunks of the document inside the transaction
RefreshRolledBack ==
    /\ Refreshed /\ rf.err = "dimension" /\ last.nd > 0
    /\ DocRows(rf.before, rf.conv, rf.doc) # {}
    /\ Len(rf.embedFn.out) = Len(rf.chunkFn.out)

\* C17: RefreshDocument without chunkFn or without embedFn returns an error at
\* once: no function is called, no statement reaches the database, the table
\* and the goroutine are as before.
MissingFunctionRejected ==
    [][(rf.stage = "idle" /\ rf'.stage # "idle" /\ (rf'.chunkFn.nil \/ rf'.embedFn.nil)) =>
          /\ rf'.stage = "returned"
          /\ rf'.err = "missing"
          /\ rf'.calls = <<>>
          /\ UNCHANGED vars]_<<vars, others>>

\* a refresh given a chunkFn and no embedFn has returned the error on a table
\* with chunks
RejectedWithoutEmbedFn ==
    /\ Refreshed /\ rf.err = "missing" /\ rf.calls = <<>>
    /\ ~rf.chunkFn.nil /\ rf.embedFn.nil
    /\ DocRows(store, rf.conv, rf.doc) # {}

\* ------------------------------------------------------------------ Embed --
\* the requests made so far are for the first texts, in their order, each
\* answered before the next
OnePerTextInOrder ==
    /\ Len(em.requests) <= Len(em.texts)
    /\ Len(em.responses) = Len(em.requests)
    /\ \A i \in DOMAIN em.requests : em.requests[i] = em.texts[i]
EmbedOK == em.stage = "returned" /\ em.err = "ok"

\* C18: a successful Embed(texts) returns len(texts) vectors, the i-th being the
\* embedding of the response to the request for the i-th text, as float32;
\* there is one request per text, in the order of the texts, one after the other.
EmbedKeepsOrder ==
    /\ OnePerTextInOrder
    /\ EmbedOK =>
         /\ Len(em.returned) = Len(em.texts)
         /\ em.requests = em.texts
         /\ \A i \in DOMAIN em.texts :
               LET sent == em.responses[i].embedding
               IN  em.returned[i] = [j \in DOMAIN sent |-> sent[j] - (sent[j] % 2)]

\* a successful call for the most texts, answered with different embeddings
EmbeddedSeveral ==
    /\ EmbedOK /\ Len(em.texts) = MaxChunks
    /\ em.responses[1].kind = "ok" /\ em.responses[MaxChunks].kind = "ok"
    /\ em.returned[1] # em.returned[MaxChunks]
    /\ em.returned[1] # em.responses[1].embedding

\* the i-th response is a failure: no response, an undecodable one, an error
\* response, or under a non-zero dimension a vector of another length
FailedResponse(i) ==
    \/ em.responses[i].kind \in {"transport", "garbage", "status"}
    \/ em.dimension # 0 /\ Len(em.responses[i].embedding) # em.dimension

\* C19: Embed is fail-fast: a failed request (transport error, undecodable
\* response, error response, or a vector of the wrong length under a non-zero
\* dimension) is the last one made, is made once, and Embed returns an error
\* and no vectors.
EmbedFailsFast ==
    /\ OnePerTextInOrder
    /\ \A i \in DOMAIN em.responses :
         FailedResponse(i) =>
            /\ i = Len(em.responses)
            /\ em.stage = "returned"
            /\ em.err \notin {"ok", "none"}
            /\ em.returned = <<>>

\* ------------------------------------------------------------ buildPrompt --
\* C20: in the prompt every included candidate is the first min(len, 8000)
\* characters of its text, whole characters only, a text of at most 8000
\* characters being whole; the included texts stay within 24000 and are the
\* candidates before the first one that would pass it.
PromptTakesFirstCharacters ==
    \A k \in DOMAIN pr.docMessages :
        LET m == pr.docMessages[k]
            source == pr.texts[m.src]
        IN  /\ m.text.partial = 0
            /\ m.text.chars = Min(source.chars, maxDocCharacters)
            /\ pr.total <= maxCombinedDocs

PromptDone == pr.stage = "built" /\ pr.loaded = "ok"
Included == {pr.docMessages[k].src : k \in DOMAIN pr.docMessages}
\* the bytes of a candidate, and of what the per-document limit leaves of it
BytesOf(t) == t.chars * t.width
CutBytes(t) == IF BytesOf(t) <= maxDocCharacters THEN BytesOf(t) ELSE maxDocCharacters
InOrder == \A k, l \in DOMAIN pr.docMessages : k < l => pr.docMessages[k].src < pr.docMessages[l].src

\* C21 as stated: the included candidates are, in the given order, a prefix of
\* the candidate list, the first candidate that would pass 24000 and all
\* later ones being dropped.
PromptKeepsPrefix ==
    PromptDone =>
        /\ InOrder
        /\ Included = 1..Len(pr.docMessages)
        /\ Len(pr.docMessages) < Len(pr.texts) =>
              pr.total + CutBytes(pr.texts[Len(pr.docMessages) + 1]) > maxCombinedDocs

\* C21: the included candidates are, in the given order, the non-empty
\* candidates before the first one whose truncated text would take the running
\* total of bytes over 24000; that candidate and every later one are dropped,
\* and an included candidate is in with all of its truncated text.
PromptKeepsNonEmptyPrefix ==
    PromptDone =>
        /\ InOrder
        /\ Included = {j \in 1..(pr.i - 1) : pr.texts[j].chars > 0}
        /\ pr.i <= Len(pr.texts) =>
              /\ pr.texts[pr.i].chars > 0
              /\ pr.total + CutBytes(pr.texts[pr.i]) > maxCombinedDocs
        /\ \A k \in DOMAIN pr.docMessages :
               LET m == pr.docMessages[k]
               IN  m.text.chars * m.text.width + m.text.partial = CutBytes(pr.texts[m.src])

\* the loop stopped at a candidate with a short one after it, which alone
\* would have fitted; the candidates before are in
DroppedAfterOverflow ==
    /\ PromptDone /\ pr.i < Len(pr.texts)
    /\ BytesOf(pr.texts[Len(pr.texts)]) \in 1..(maxDocCharacters - 1)
    /\ Len(pr.docMessages) = pr.i - 1

PromptBuiltNow == pr.stage = "built"
Entries == pr.messages[1].content.entries
\* the characters of a text: each byte of a character cut in two counts as one
CharsOf(t) == t.chars + t.partial
\* the characters of all "Document N" entries together, and the bytes of the
\* texts in them
BlockChars ==
    LET S[k \in 0..Len(Entries)] ==
            IF k = 0 THEN 0 ELSE S[k - 1] + 11 + Digits(Entries[k].n) + CharsOf(Entries[k].text) + 2
    IN  S[Len(Entries)]
TextBytes ==
    LET S[k \in 0..Len(Entries)] ==
            IF k = 0 THEN 0
            ELSE S[k - 1] + Entries[k].text.chars * Entries[k].text.width + Entries[k].text.partial
    IN  S[Len(Entries)]

PromptFollowsHistory ==
    PromptBuiltNow =>
        /\ Len(pr.messages) = Len(pr.history) + 1
        /\ pr.messages[1].role = "system"
        /\ \A k \in DOMAIN pr.history :
              /\ pr.messages[k + 1].role = pr.history[k].role
              /\ pr.messages[k + 1].content = pr.history[k].content
        /\ pr.messages[1].content.intro <=> (pr.docMessages # <<>>)
        /\ \A k \in DOMAIN Entries :
              Entries[k].n = k /\ Entries[k].text = pr.docMessages[k].text

\* a prompt for a history of the most messages, of different roles, with
\* reference documents
PromptWithHistory ==
    /\ PromptBuiltNow /\ Len(pr.history) = MaxHistory
    /\ pr.history[1].role # pr.history[MaxHistory].role
    /\ Len(pr.docMessages) > 1

\* C24: when loading the candidate texts fails during prompt assembly the
\* failure is reported to the caller and no prompt is produced without the
\* documents.
LoadFailureReported == pr.loaded = "failed" => pr.messages = <<>>

\* the bytes of the texts appended to docMessages so far
IncludedBytes ==
    LET S[k \in 0..Len(pr.docMessages)] ==
            IF k = 0 THEN 0 ELSE S[k - 1] + len(pr.docMessages[k].text)
    IN  S[Len(pr.docMessages)]

\* C33: a candidate whose text is empty is never included and never ends the
\* loop, and takes neither budget nor a label: the running total is the sum
\* of the lengths of the included truncated texts and never exceeds 24000,
\* the included candidates stand in candidate order, and in the prompt they
\* are labelled Document 1 .. Document k without a gap.
EmptySkippedLabelsConsecutive ==
    pr.loaded = "ok" =>
        /\ \A j \in Included : len(pr.texts[j]) > 0
        /\ pr.stage \in {"docs", "built"} /\ pr.i <= Len(pr.texts) => len(pr.texts[pr.i]) > 0
        /\ \A j \in 1..(pr.i - 1) : len(pr.texts[j]) > 0 => j \in Included
        /\ InOrder
        /\ \A k \in DOMAIN pr.docMessages :
               pr.docMessages[k].text = trimToLimit(pr.texts[pr.docMessages[k].src], maxDocCharacters)
        /\ pr.total = IncludedBytes
        /\ IncludedBytes <= maxCombinedDocs
        /\ PromptBuiltNow =>
               /\ Len(Entries) = Cardinality(Included)
               /\ \A k \in DOMAIN Entries :
                      Entries[k].n = k /\ Entries[k].text = pr.docMessages[k].text

\* a prompt with two documents labelled 1 and 2 that stood before and after
\* an empty candidate
EmptyBetweenIncluded ==
    /\ PromptDone /\ Len(Entries) = 2
    /\ \E j \in 2..(Len(pr.texts) - 1) :
          /\ len(pr.texts[j]) = 0
          /\ Included = {j - 1, j + 1}

\* ------------------------------------------------------- storage.Manager --
\* c is between lock.Lock() and the deferred lock.Unlock(): it loads, appends
\* and writes the metadata of its conversation
InSection(c) == mg.g[c].pc \in {"load", "write"}

\* C25: at every instant at most one goroutine is inside the load-append-write
\* section of a conversation, be it that of history.json in AppendMessage or
\* that of documents.json in SaveDocument.
OneWriterPerConversation ==
    \A a, b \in Callers :
        (a # b /\ InSection(a) /\ InSection(b)) => mg.g[a].conv # mg.g[b].conv

\* a goroutine is inside the section of a conversation while another, which
\* has the same mutex, waits at lock.Lock() to mutate the same conversation
WaitingForSection ==
    \E a, b \in Callers :
        /\ a # b /\ InSection(a) /\ mg.g[b].pc = "Lock"
        /\ mg.g[a].conv = mg.g[b].conv /\ mg.g[a].lock = mg.g[b].lock

Registered == {conv \in Convs : mg.locks[conv] # 0}

\* C26: lockFor makes the mutex of a conversation id on first use and never
\* removes or replaces it: the ids registered only grow, as many mutexes were
\* made as ids are registered, and every goroutine that asked for an id has
\* the mutex registered for it.
RegistryOnlyGrows ==
    [][/\ \A conv \in Convs : mg.locks[conv] # 0 => mg'.locks[conv] = mg.locks[conv]
       /\ Len(mg'.held) = Cardinality({conv \in Convs : mg'.locks[conv] # 0})
       /\ \A c \in Callers :
             mg'.g[c].lock # 0 => mg'.g[c].lock = mg'.locks[mg'.g[c].conv]]_<<vars, others>>

\* two goroutines have asked for the same id and have the same mutex, made by
\* the first of them
SameMutexForBoth ==
    \E a, b \in Callers :
        /\ a # b /\ mg.g[a].lock # 0 /\ mg.g[a].lock = mg.g[b].lock
        /\ mg.g[a].conv = mg.g[b].conv
        /\ Registered = {mg.g[a].conv}

\* the entries of the calls on file f of conv that returned nil
Written(conv, f) == {e.entry : e \in {x \in mg.ok : x.conv = conv /\ x.file = f}}
PriorOf(conv) == IF conv = "c1" THEN Prior ELSE <<>>

\* C30: no metadata update is lost: a file that no failed write has damaged
\* holds the prior entries, unchanged and in their order, followed by the entry
\* of every call that returned nil, each exactly once.
NoUpdateLost ==
    \A conv \in Convs, f \in Files :
        LET file == mg.files[conv][f]
            n == Len(PriorOf(conv))
        IN  ~file.corrupt =>
                /\ Len(file.list) = n + Cardinality(Written(conv, f))
                /\ \A i \in 1..n : file.list[i] = PriorOf(conv)[i]
                /\ \A e \in Written(conv, f) : \E i \in (n + 1)..Len(file.list) : file.list[i] = e

\* all the calls allowed were on the history of the conversation that had
\* prior entries, and returned nil
AllAppended ==
    /\ Cardinality(Written("c1", "history")) = MaxAppends
    /\ ~mg.files["c1"]["history"].corrupt

\* c has called AppendMessage or SaveDocument and has not returned
Calling(c) == mg.g[c].pc # "idle"

\* C31: the storage locks cannot deadlock and are always released: a goroutine
\* has the registry mutex only inside lockFor and never while it waits for a
\* conversation mutex, a conversation mutex is held only by a goroutine inside
\* its section, so every return, error returns included, has released it, and
\* under fair scheduling every call of AppendMessage or SaveDocument returns.
LocksReleasedAndCallsReturn ==
    /\ [](\A c \in Callers : mg.mu = c => mg.g[c].pc = "create")
    /\ [](\A l \in 1..Len(mg.held) :
             mg.held[l] # "none" =>
                 /\ InSection(mg.held[l])
                 /\ mg.g[mg.held[l]].lock = l)
    /\ \A c \in Callers : Calling(c) ~> ~Calling(c)

\* a call has returned on an error path (its failed write has damaged a file
\* of the conversation) and left the mutex free for the goroutine that waits
\* at lock.Lock() for the same conversation
FreedOnErrorReturn ==
    \E c \in Callers, f \in Files :
        /\ mg.g[c].pc = "Lock"
        /\ mg.held[mg.g[c].lock] = "none"
        /\ mg.files[mg.g[c].conv][f].corrupt

\* ---------------------------------------------------------- chunk indexes --
\* C32: when an upsert of (c, d) with n contents commits, the chunks of (c, d)
\* carry the chunk indexes 0..n-1, each exactly once, the chunk with index i
\* holds contents[i] and vectors[i], and the ids of the chunks it wrote differ
\* from one another and from every id in the table.
IndexedOncePerCommit ==
    [][\A p \in Procs :
          UpsertCommits(p) =>
              LET a == args[p]
                  rows == ChunksOf(store', a.conv, a.doc)
                  written == store' \ store
              IN  /\ \A r \in rows : r.idx \in 0..(Len(a.contents) - 1)
                  /\ \A i \in 1..Len(a.contents) :
                        /\ Cardinality({r \in rows : r.idx = i - 1}) = 1
                        /\ \A r \in rows : r.idx = i - 1 =>
                               r.content = a.contents[i] /\ r.vec = a.vectors[i]
                  /\ \A r \in written : \A q \in (store \cup store') \ {r} : q.id # r.id]_vars

\* ------------------------------------------------------ handlePostMessage --
\* the messages of turn t in a history, in their order
TurnsOf(list, t) == SelectSeq(list, LAMBDA m : m.turn = t)
Holds(list, m) == \E k \in DOMAIN list : list[k] = m

\* C34: the user message is in the history before the model is called and the
\* assistant message only after a successful reply: when Generate has failed
\* the request returns 502, the history holds of that turn the user message
\* and nothing else, no transcript of the turn exists, and with no concurrent
\* post on the conversation the history is what it was followed by the user
\* message; when the handler has succeeded with no concurrent post the
\* history is what it was followed by the user and the assistant message.
UserStoredBeforeReply ==
    \A q \in Requests :
        LET h == post.r[q]
            user == Turn("user", h.turn)
            assistant == Turn("assistant", h.turn)
        IN  h.conv \in Convs =>
              LET file == post.files[h.conv]
              IN  /\ h.pc = "generate" =>
                        /\ Holds(h.history, user)
                        /\ h.alone => h.history = h.before \o <<user>>
                  /\ Holds(file.list, assistant) => h.generated = "ok"
                  /\ h.turn \in post.transcripts => h.generated = "ok"
                  /\ h.generated = "failed" =>
                        /\ h.pc = "returned" /\ h.status = 502
                        /\ h.turn \notin post.transcripts
                        /\ ~file.corrupt => TurnsOf(file.list, h.turn) = <<user>>
                        /\ h.alone => ~file.corrupt /\ file.list = h.before \o <<user>>
                  /\ (h.pc = "returned" /\ h.status = 200 /\ h.alone) =>
                        /\ ~file.corrupt
                        /\ file.list = h.before \o <<user, assistant>>
                        /\ h.turn \in post.transcripts

\* Generate has failed in a post that met no other post on its conversation,
\* after an earlier post on the conversation had succeeded
GenerateFailedAfterReply ==
    \E q \in Requests :
        /\ post.r[q].generated = "failed" /\ post.r[q].alone
        /\ \E t \in 1..(post.r[q].turn - 1) : Holds(post.r[q].before, Turn("assistant", t))
        /\ post.files[post.r[q].conv].list = post.r[q].before \o <<Turn("user", post.r[q].turn)>>

\* ----------------------------------------------------------- ensureSchema --
SetUp == sch.stage = "returned"

\* C27: when the engine rejects the approximate index during schema setup,
\* ensureSchema and NewPostgresStore still return success, and the chunk table
\* and its secondary indexes exist afterwards.
IndexIsBestEffort ==
    (SetUp /\ sch.failed = "embedding_idx") =>
        /\ sch.err = "nil" /\ sch.store
        /\ {"table", "conversation_idx", "document_idx"} \subseteq sch.db

\* C28: a schema-setup error that does not come from creating the approximate
\* index (connection, extension, table, secondary index) is returned:
\* NewPostgresStore gives an error and no Store, with the pool closed.
SchemaErrorsReturned ==
    (SetUp /\ sch.failed \notin {"none", "embedding_idx"}) =>
        /\ sch.err \notin {"nil", "none"}
        /\ ~sch.store
        /\ sch.pool = "closed"

\* ------------------------------------------------------------ other keys --
\* C29: a step of UpsertDocumentChunks(c, d, ...) adds or removes only chunks
\* of the pair (c, d), a step of DeleteConversation(c) only chunks of c, a
\* step of QuerySimilar none, whatever other calls are in flight.
OtherKeysUntouched ==
    [][LET changed == (store \ store') \cup (store' \ store)
       IN  /\ changed # {} =>
                \/ /\ last'.op = "upsert" /\ last'.err = "ok"
                   /\ \A r \in changed : r.conv = last'.conv /\ r.doc = last'.doc
                \/ /\ last'.op = "delete" /\ last'.err = "ok"
                   /\ \A r \in changed : r.conv = last'.conv
           /\ last'.op = "query" => changed = {}]_vars

\* an upsert has replaced the chunks of its document while another document of
\* the same conversation kept its chunks and another call was in flight
SiblingDocumentKept ==
    /\ last.op = "upsert" /\ last.err = "ok" /\ last.nd > 0
    /\ \E r \in store : r.conv = last.conv /\ r.doc # last.doc
    /\ \E q \in Procs : InFlight(q)

====
